---- MODULE Spec2Model ----
(***************************************************************************)
(* A model of litestar/_signature/model.py: the SignatureModel class.      *)
(*                                                                         *)
(*   - SignatureModel.create builds the signature model (the "Schema")     *)
(*     from the parsed signature of a handler;                             *)
(*   - SignatureModel.parse_values_from_connection_kwargs converts the     *)
(*     kwargs of one request and, on failure, builds the error messages    *)
(*     (_build_error_message) and the exception (_create_exception).       *)
(*                                                                         *)
(* Python values are represented as follows.                               *)
(*   None | v          the sequences << >> and <<v>>                       *)
(*   dict              a function whose DOMAIN is the set of keys          *)
(*   TypedDict         a record holding only the keys that are set         *)
(*   a str with " - "  the sequence of the parts between the separators    *)
(*   typing objects    trees of records, see the section on create         *)
(***************************************************************************)
EXTENDS Integers, Sequences, FiniteSets, TLC

VARIABLES
    dependency_name_set,  \* ClassVar of the signature model
    fields,               \* ClassVar of the signature model: name -> kwarg_definition
    query_params,         \* connection.query_params (its keys)
    pc,                   \* per call: where parse_values_from_connection_kwargs stands
    raised,               \* per call: what convert(...) did
    messages,             \* per call: the local list `messages`
    outcome,              \* per call: what the call returned or raised
    arg_keys,             \* _build_error_message: argument keys
    arg_exc_msg,          \* _build_error_message: argument exc_msg
    ret_message,          \* _build_error_message: its return value
    parsed_signature,     \* create: parsed_signature.parameters, in order
    type_overrides,       \* create: what create_type_overrides returned
    struct_fields,        \* create: the local list struct_fields
    model                 \* create: the class defstruct returned

vars == <<dependency_name_set, fields, query_params, pc, raised, messages, outcome,
          arg_keys, arg_exc_msg, ret_message,
          parsed_signature, type_overrides, struct_fields, model>>

callVars == <<pc, raised, messages, outcome>>
classVars == <<dependency_name_set, fields>>
buildVars == <<arg_keys, arg_exc_msg, ret_message>>
createVars == <<parsed_signature, type_overrides, struct_fields, model>>

(***************************************************************************)
(* Bounds of the model.                                                    *)
(***************************************************************************)
MaxErrors == 2      \* errors in one pydantic ValidationError
MaxMessages == 3    \* messages handed to _create_exception on its own
NumCalls == 2       \* concurrent calls of parse on one signature model
MaxParams == 2      \* parameters of a handler

None == << >>
Some(v) == <<v>>

(***************************************************************************)
(* Strings.                                                                *)
(***************************************************************************)
\* sep.join(parts)
RECURSIVE JoinWith(_, _)
JoinWith(sep, parts) ==
    IF Len(parts) = 0 THEN ""
    ELSE IF Len(parts) = 1 THEN parts[1]
    ELSE parts[1] \o sep \o JoinWith(sep, Tail(parts))

\* str(loc) of one item of a pydantic error location: a name or an index
StrOfLoc(loc) == IF "s" \in DOMAIN loc THEN loc.s ELSE ToString(loc.i)

(***************************************************************************)
(* kwarg definitions (litestar.params), as the fields map holds them.      *)
(***************************************************************************)
NoKwarg == [kind |-> "None"]
ParameterKwarg(attrs) == [kind |-> "ParameterKwarg", attrs |-> attrs]
BodyKwarg(attrs) == [kind |-> "BodyKwarg", attrs |-> attrs]
DependencyKwarg(skip) == [kind |-> "DependencyKwarg", skip_validation |-> skip]

\* isinstance(kd, ParameterKwarg)
IsParameterKwarg(kd) == kd.kind = "ParameterKwarg"
\* isinstance(kd, KwargDefinition): ParameterKwarg and BodyKwarg derive from it
IsKwargDefinition(kd) == kd.kind \in {"ParameterKwarg", "BodyKwarg"}
\* isinstance(kd, DependencyKwarg)
IsDependencyKwarg(kd) == kd.kind = "DependencyKwarg"

\* truth of an Optional[str] attribute such as ParameterKwarg.cookie
TruthyStr(v) == v # None /\ v[1] # ""
\* truth of an Optional[int] attribute such as ParameterKwarg.min_items
TruthyInt(v) == v # None /\ v[1] # 0

(***************************************************************************)
(* SignatureModel._create_exception                                        *)
(***************************************************************************)
\* a condition that forgets the messages without a key
IsClientErrorKeyed(err_message, dns) ==
    "key" \in DOMAIN err_message /\ err_message.key \notin dns

\* the condition with the test of the dependency names the wrong way round
IsClientErrorInverted(err_message, dns) ==
    \/ ("key" \in DOMAIN err_message /\ err_message.key \in dns)
    \/ "key" \notin DOMAIN err_message

\* the condition of the list comprehension
IsClientError(err_message, dns) ==
    \/ ("key" \in DOMAIN err_message /\ err_message.key \notin dns)
    \/ "key" \notin DOMAIN err_message

ClientErrors(msgs, dns) == SelectSeq(msgs, LAMBDA m : IsClientError(m, dns))

ValidationException(extra) == [exception |-> "ValidationException", extra |-> extra]
InternalServerException == [exception |-> "InternalServerException"]

_create_exception(msgs, dns) ==
    LET client_errors == ClientErrors(msgs, dns)
    IN  IF client_errors # << >>
        THEN ValidationException(client_errors)
        ELSE InternalServerException

(***************************************************************************)
(* SignatureModel._build_error_message                                     *)
(* exc_msg is the sequence of the parts of the string between " - ".       *)
(***************************************************************************)
\* the two checks in the other order: the field's kwarg definition first
SourceOfFieldFirst(key, flds, qp) ==
    IF key \in DOMAIN flds /\ IsParameterKwarg(flds[key])
    THEN IF TruthyStr(flds[key].attrs["cookie"]) THEN Some("cookie")
         ELSE IF TruthyStr(flds[key].attrs["header"]) THEN Some("header")
         ELSE Some("query")
    ELSE IF key \in qp THEN Some("query")
    ELSE None

SourceOf(key, flds, qp) ==
    IF key \in qp THEN Some("query")
    ELSE IF key \in DOMAIN flds /\ IsParameterKwarg(flds[key])
    THEN IF TruthyStr(flds[key].attrs["cookie"]) THEN Some("cookie")
         ELSE IF TruthyStr(flds[key].attrs["header"]) THEN Some("header")
         ELSE Some("query")
    ELSE None

_build_error_message(keys, exc_msg, flds, qp) ==
    LET message == [message |-> exc_msg[1]]
        key == JoinWith(".", keys)
        source == SourceOf(key, flds, qp)
    IN  IF keys = << >> THEN message
        ELSE IF source # None
        THEN [message |-> exc_msg[1], key |-> key, source |-> source[1]]
        ELSE [message |-> exc_msg[1], key |-> key]

(***************************************************************************)
(* What convert(kwargs, cls, strict=False, dec_hook=dec_hook) can do.  It   *)
(* is msgspec's; the model takes its result as the input of a call:        *)
(*   Returned(struct)            an instance of cls, one value per field   *)
(*   PydanticValidationError(e)  e.errors(): a list of {loc, msg}          *)
(*   ValidationError(s)          str(e): its parts between " - ", and the  *)
(*                               path of a closing "at $.<path>" part      *)
(* (the backticks msgspec writes around names and paths are left out of    *)
(* the strings of the model).                                              *)
(***************************************************************************)
Returned(struct) == [kind |-> "returned", struct |-> struct]
PydanticValidationError(errors) == [kind |-> "PydanticValidationError", errors |-> errors]
ValidationError(text, path) == [kind |-> "ValidationError", text |-> text, path |-> path]

\* ERR_RE.search(str(e)): the text after "`$." of a string that ends in "`$.<path>`"
ERR_RE_search(e) == IF e.path = None THEN None ELSE Some(JoinWith(".", e.path[1]))

\* str(e).split(" - "): the closing path fragment is one more part
SplitStr(e) == IF e.path = None THEN e.text ELSE Append(e.text, "at $." \o JoinWith(".", e.path[1]))

\* keys = [str(loc) for loc in exc["loc"]]
PydanticKeys(exc) == [i \in 1..Len(exc.loc) |-> StrOfLoc(exc.loc[i])]

\* keys = [str(match.group(1)) if match else "n/a"]
MsgspecKeys(e) == LET match == ERR_RE_search(e) IN <<IF match # None THEN match[1] ELSE "n/a">>

\* a to_dict that leaves out the fields whose value is falsy
to_dict_truthy(struct) == [name \in { n \in DOMAIN struct : struct[n] # 0 } |-> struct[name]]

\* SignatureModel.to_dict: asdict(self)
to_dict(struct) == [name \in DOMAIN struct |-> struct[name]]

\* an append to a list that all the calls share (a class-level list)
AppendMessageShared(msgs, c, message) == [d \in DOMAIN msgs |-> Append(msgs[d], message)]

\* messages.append(message), messages being a local of the call
AppendMessage(msgs, c, message) == [msgs EXCEPT ![c] = Append(@, message)]

Calls == 1..NumCalls

ReturnEvent(value) == [event |-> "return", value |-> value]
RaiseEvent(exc) == [event |-> "raise", exc |-> exc]

(***************************************************************************)
(* parse_values_from_connection_kwargs, one call c.  A call is a sequence  *)
(* of steps so that calls on the same class interleave.                    *)
(***************************************************************************)
\* line 138: convert succeeds and the call returns to_dict() of the instance
ConvertReturns(c, struct) ==
    /\ pc[c] = "start"
    /\ raised' = [raised EXCEPT ![c] = Returned(struct)]
    /\ outcome' = [outcome EXCEPT ![c] = Append(@, ReturnEvent(to_dict(struct)))]
    /\ pc' = [pc EXCEPT ![c] = "done"]
    /\ UNCHANGED <<messages, classVars, query_params, buildVars, createVars>>

\* line 139: convert raises a pydantic ValidationError
ConvertRaisesPydantic(c, errors) ==
    /\ pc[c] = "start"
    /\ raised' = [raised EXCEPT ![c] = PydanticValidationError(errors)]
    /\ pc' = [pc EXCEPT ![c] = "except_pydantic"]
    /\ UNCHANGED <<messages, outcome, classVars, query_params, buildVars, createVars>>

\* line 145: convert raises a msgspec ValidationError
ConvertRaisesMsgspec(c, e) ==
    /\ pc[c] = "start"
    /\ raised' = [raised EXCEPT ![c] = e]
    /\ pc' = [pc EXCEPT ![c] = "except_msgspec"]
    /\ UNCHANGED <<messages, outcome, classVars, query_params, buildVars, createVars>>

\* lines 140-143: one iteration of the loop over e.errors()
PydanticLoop(c) ==
    /\ pc[c] = "except_pydantic"
    /\ Len(messages[c]) < Len(raised[c].errors)
    /\ LET exc == raised[c].errors[Len(messages[c]) + 1]
           message == _build_error_message(PydanticKeys(exc), exc.msg, fields, query_params)
       IN  messages' = AppendMessage(messages, c, message)
    /\ UNCHANGED <<pc, raised, outcome, classVars, query_params, buildVars, createVars>>

\* lines 146-149
MsgspecBuild(c) ==
    /\ pc[c] = "except_msgspec"
    /\ LET message == _build_error_message(MsgspecKeys(raised[c]), SplitStr(raised[c]),
                                           fields, query_params)
       IN  messages' = AppendMessage(messages, c, message)
    /\ pc' = [pc EXCEPT ![c] = "raise"]
    /\ UNCHANGED <<raised, outcome, classVars, query_params, buildVars, createVars>>

\* lines 144 and 150: raise cls._create_exception(messages=messages, ...)
Raise(c) ==
    /\ \/ pc[c] = "raise"
       \/ pc[c] = "except_pydantic" /\ Len(messages[c]) = Len(raised[c].errors)
    /\ outcome' = [outcome EXCEPT ![c] =
                      Append(@, RaiseEvent(_create_exception(messages[c], dependency_name_set)))]
    /\ pc' = [pc EXCEPT ![c] = "done"]
    /\ UNCHANGED <<raised, messages, classVars, query_params, buildVars, createVars>>

\* the whole call at once: what it returns or raises, given what convert did
ParseAlone(r, flds, dns, qp) ==
    IF r.kind = "returned" THEN ReturnEvent(to_dict(r.struct))
    ELSE IF r.kind = "PydanticValidationError"
    THEN RaiseEvent(_create_exception(
             [i \in 1..Len(r.errors) |->
                 _build_error_message(PydanticKeys(r.errors[i]), r.errors[i].msg, flds, qp)],
             dns))
    ELSE RaiseEvent(_create_exception(
             <<_build_error_message(MsgspecKeys(r), SplitStr(r), flds, qp)>>, dns))

(***************************************************************************)
(* The inputs.                                                             *)
(***************************************************************************)
FieldNames == {"db", "limit"}
QueryNames == {"limit", "db.host"}
Values == {0, 1}

\* the attributes of a ParameterKwarg that the model follows; a BodyKwarg has
\* no header and no cookie
AttrKeys == {"min_items", "max_items", "min_length", "max_length", "gt", "title", "header", "cookie"}
BodyAttrKeys == AttrKeys \ {"header", "cookie"}
\* the attributes, those not given being None
Attrs(keys, given) == [k \in keys |-> IF k \in DOMAIN given THEN given[k] ELSE None]
ParamAttrs(cookie, header) == Attrs(AttrKeys, ("cookie" :> cookie) @@ ("header" :> header))

KwargDefinitions ==
    { NoKwarg, DependencyKwarg(FALSE), BodyKwarg(Attrs(BodyAttrKeys, << >>)) }
    \cup { ParameterKwarg(ParamAttrs(ck, hd)) : ck \in {None, Some("sid")}, hd \in {None, Some("X-Id")} }

FieldMaps == [FieldNames -> KwargDefinitions]

Locs == { <<>>, <<[s |-> "db"]>>, <<[s |-> "limit"]>>, <<[s |-> "db"], [s |-> "host"]>>,
          <<[s |-> "limit"], [i |-> 0]>> }
ExcMsgs == { <<"invalid value">>, <<"invalid value", "additional context">> }
PydanticErrors == { [loc |-> l, msg |-> <<"invalid value">>] : l \in Locs }
                  \cup { [loc |-> <<[s |-> "limit"]>>, msg |-> <<"invalid value", "additional context">>] }

RECURSIVE SeqsOfLen(_, _)
\* the sequences over S of length n
SeqsOfLen(S, n) ==
    IF n = 0 THEN { << >> }
    ELSE { Append(s, x) : s \in SeqsOfLen(S, n - 1), x \in S }

\* the sequences over S of length at most n
SeqsUpTo(S, n) == UNION { SeqsOfLen(S, k) : k \in 0..n }

ErrorLists == SeqsUpTo(PydanticErrors, MaxErrors) \ { << >> }

MsgspecErrors ==
    { ValidationError(<<"Expected int, got str">>, p) :
          p \in { None, Some(<<"limit">>), Some(<<"db">>), Some(<<"db", "host">>) } }
    \cup { ValidationError(<<"Object missing required field limit">>, None) }

Structs == [FieldNames -> Values]

Idle == [kind |-> "none"]

InitCalls ==
    /\ pc = [c \in Calls |-> "start"]
    /\ raised = [c \in Calls |-> Idle]
    /\ messages = [c \in Calls |-> << >>]
    /\ outcome = [c \in Calls |-> << >>]

NoBuild ==
    /\ arg_keys = << >>
    /\ arg_exc_msg = << >>
    /\ ret_message = None

NoCreate ==
    /\ parsed_signature = << >>
    /\ type_overrides = << >>
    /\ struct_fields = << >>
    /\ model = None

\* the class variables create sets (lines 223-227): a parameter that carries a
\* DependencyKwarg is among the dependency names the class is given
InitClass ==
    /\ dependency_name_set \in SUBSET FieldNames
    /\ fields \in FieldMaps
    /\ \A n \in FieldNames : IsDependencyKwarg(fields[n]) => n \in dependency_name_set
    /\ query_params \in SUBSET QueryNames

(***************************************************************************)
(* Spec: one call of parse_values_from_connection_kwargs.                  *)
(***************************************************************************)
Init == InitClass /\ InitCalls /\ NoBuild /\ NoCreate

Next ==
    \/ \E struct \in Structs : ConvertReturns(1, struct)
    \/ \E errors \in ErrorLists : ConvertRaisesPydantic(1, errors)
    \/ \E e \in MsgspecErrors : ConvertRaisesMsgspec(1, e)
    \/ PydanticLoop(1)
    \/ MsgspecBuild(1)
    \/ Raise(1)

Spec == Init /\ [][Next]_vars

(***************************************************************************)
(* Claims about one call (Spec).                                           *)
(***************************************************************************)
Range(s) == { s[i] : i \in 1..Len(s) }

\* the first segment of the path of error i of a failed convert
FirstSegment(r, i) ==
    IF r.kind = "PydanticValidationError"
    THEN IF r.errors[i].loc = << >> THEN None ELSE Some(StrOfLoc(r.errors[i].loc[1]))
    ELSE IF r.path = None THEN None ELSE Some(r.path[1][1])

NumErrors(r) == IF r.kind = "PydanticValidationError" THEN Len(r.errors) ELSE 1

InDependency(r, i, dns) == FirstSegment(r, i) # None /\ FirstSegment(r, i)[1] \in dns

Failed(c) == pc[c] = "done" /\ raised[c].kind \in {"PydanticValidationError", "ValidationError"}

\* C2: a failed parse whose errors are all at or inside dependency-injected
\* fields (first path segment in dependency_name_set, nested paths included)
\* raises InternalServerException, and no message about such a field is in the
\* extra of a ValidationException.
C2_DependencyErrorsStayInternal ==
    \A c \in Calls : Failed(c) =>
        LET r == raised[c]
            exc == outcome[c][1].exc
        IN  /\ (\A i \in 1..NumErrors(r) : InDependency(r, i, dependency_name_set))
                  => exc = InternalServerException
            /\ exc.exception = "ValidationException"
                  => \A i \in 1..NumErrors(r) :
                        InDependency(r, i, dependency_name_set) => messages[c][i] \notin Range(exc.extra)

\* C4: after a msgspec ValidationError whose message ends in no path fragment,
\* the ErrorMessage has neither key nor source, and "n/a" is no key of the output.
C4_NoPathNoKey ==
    \A c \in Calls :
        (pc[c] = "done" /\ raised[c].kind = "ValidationError" /\ raised[c].path = None) =>
            /\ DOMAIN messages[c][1] = {"message"}
            /\ LET exc == outcome[c][1].exc
               IN  exc.exception = "ValidationException" =>
                       \A i \in 1..Len(exc.extra) :
                           "key" \in DOMAIN exc.extra[i] => exc.extra[i].key # "n/a"

ConcFieldMaps ==
    { [n \in FieldNames |-> NoKwarg],
      [n \in FieldNames |-> IF n = "db" THEN DependencyKwarg(FALSE)
                            ELSE ParameterKwarg(ParamAttrs(None, Some("X-Id")))] }

ConcStructs == { [n \in FieldNames |-> 0], [n \in FieldNames |-> IF n = "db" THEN 0 ELSE 1] }

ConcErrorLists ==
    { <<[loc |-> <<[s |-> "db"]>>, msg |-> <<"invalid value">>]>>,
      <<[loc |-> <<[s |-> "db"]>>, msg |-> <<"invalid value">>],
        [loc |-> <<[s |-> "limit"]>>, msg |-> <<"invalid value", "additional context">>]>> }

ConcMsgspecErrors ==
    { ValidationError(<<"Expected int, got str">>, Some(<<"limit">>)),
      ValidationError(<<"Object missing required field limit">>, None) }

InitConc ==
    /\ dependency_name_set \in SUBSET FieldNames
    /\ fields \in ConcFieldMaps
    /\ \A n \in FieldNames : IsDependencyKwarg(fields[n]) => n \in dependency_name_set
    /\ query_params \in SUBSET {"limit"}
    /\ InitCalls /\ NoBuild /\ NoCreate

NextConc ==
    \E c \in Calls :
        \/ \E struct \in ConcStructs : ConvertReturns(c, struct)
        \/ \E errors \in ConcErrorLists : ConvertRaisesPydantic(c, errors)
        \/ \E e \in ConcMsgspecErrors : ConvertRaisesMsgspec(c, e)
        \/ PydanticLoop(c)
        \/ MsgspecBuild(c)
        \/ Raise(c)

SpecConc == InitConc /\ [][NextConc]_vars

\* C6: no step of parse changes the class variables, every finished call has
\* the outcome the same call has when it runs alone, and two finished calls for
\* which convert did the same have the same outcome.
C6_CallsDoNotInterfere ==
    [][ /\ dependency_name_set' = dependency_name_set
        /\ fields' = fields
        /\ \A c \in Calls : pc'[c] = "done" =>
              outcome'[c] = <<ParseAlone(raised'[c], fields', dependency_name_set', query_params')>>
        /\ \A c, d \in Calls :
              (pc'[c] = "done" /\ pc'[d] = "done" /\ raised'[c] = raised'[d])
                  => outcome'[c] = outcome'[d]
      ]_vars

C6_Witness ==
    \E c, d \in Calls :
        /\ c # d
        /\ pc[c] = "done"
        /\ raised[c].kind = "PydanticValidationError"
        /\ Len(messages[c]) = 2
        /\ outcome[c][1].exc.exception = "ValidationException"
        /\ pc[d] = "except_pydantic"
        /\ Len(messages[d]) = 1
        /\ Len(raised[d].errors) = 2

(***************************************************************************)
(* SpecClassify: _create_exception on a list of messages of its own.       *)
(***************************************************************************)
ErrorMessages ==
    { [message |-> "invalid value"] }
    \cup { [message |-> "invalid value", key |-> k] : k \in {"db", "limit", "db.host", "n/a"} }
    \cup { [message |-> "invalid value", key |-> k, source |-> "query"] : k \in {"db", "limit"} }

InitClassify ==
    /\ dependency_name_set \in SUBSET FieldNames
    /\ fields = [n \in FieldNames |-> NoKwarg]
    /\ query_params = {}
    /\ pc = [c \in Calls |-> IF c = 1 THEN "raise" ELSE "start"]
    /\ raised = [c \in Calls |-> Idle]
    /\ messages \in { [c \in Calls |-> IF c = 1 THEN ms ELSE << >>] :
                          ms \in SeqsUpTo(ErrorMessages, MaxMessages) }
    /\ outcome = [c \in Calls |-> << >>]
    /\ NoBuild /\ NoCreate

NextClassify == Raise(1)

SpecClassify == InitClassify /\ [][NextClassify]_vars

HasKey(m) == "key" \in DOMAIN m

\* the indexes of the messages without a key or with a key outside dns
ClientIndexes(msgs, dns) ==
    { i \in 1..Len(msgs) : ~HasKey(msgs[i]) \/ msgs[i].key \notin dns }

\* the j-th smallest member of a set of indexes
Nth(S, j) == CHOOSE i \in S : Cardinality({ k \in S : k <= i }) = j

\* C1: _create_exception gives a ValidationException exactly when some message
\* has no key or a key outside dependency_name_set; its extra is the
\* subsequence of those messages, in order; otherwise it gives an
\* InternalServerException that carries no message.
C1_Classification ==
    \A c \in Calls : pc[c] = "done" /\ raised[c] = Idle =>
        LET exc == outcome[c][1].exc
            idx == ClientIndexes(messages[c], dependency_name_set)
        IN  /\ outcome[c][1].event = "raise"
            /\ exc.exception = "ValidationException" <=> idx # {}
            /\ exc.exception = "ValidationException" =>
                  /\ Len(exc.extra) = Cardinality(idx)
                  /\ \A j \in 1..Len(exc.extra) : exc.extra[j] = messages[c][Nth(idx, j)]
            /\ exc.exception # "ValidationException" =>
                  /\ exc.exception = "InternalServerException"
                  /\ DOMAIN exc = {"exception"}

C1_Witness ==
    \E c \in Calls :
        /\ pc[c] = "done" /\ raised[c] = Idle
        /\ dependency_name_set = {"db"}
        /\ Len(messages[c]) = 3
        /\ HasKey(messages[c][1]) /\ messages[c][1].key = "db"
        /\ HasKey(messages[c][2]) /\ messages[c][2].key = "limit"
        /\ ~HasKey(messages[c][3])
        /\ outcome[c][1].exc = ValidationException(<<messages[c][2], messages[c][3]>>)

\* C9 as the spec states it: a message whose key is in dependency_name_set or
\* absent counts as internal, so a failure with only such messages gives an
\* InternalServerException.
C9_KeylessIsInternal ==
    \A c \in Calls : pc[c] = "done" /\ raised[c] = Idle /\ messages[c] # << >> =>
        ( (\A i \in 1..Len(messages[c]) :
               ~HasKey(messages[c][i]) \/ messages[c][i].key \in dependency_name_set)
          <=> outcome[c][1].exc = InternalServerException )

\* C9 amended: only a message whose key is in dependency_name_set counts as
\* internal; a message without a key is a client error, and a failure whose
\* only message has no key gives a ValidationException carrying it.
C9_KeylessIsClient ==
    \A c \in Calls : pc[c] = "done" /\ raised[c] = Idle /\ messages[c] # << >> =>
        LET exc == outcome[c][1].exc
            msgs == messages[c]
        IN  /\ (\A i \in 1..Len(msgs) : HasKey(msgs[i]) /\ msgs[i].key \in dependency_name_set)
                  <=> exc = InternalServerException
            /\ \A i \in 1..Len(msgs) :
                  (~HasKey(msgs[i]) \/ msgs[i].key \notin dependency_name_set)
                      => exc.exception = "ValidationException" /\ msgs[i] \in Range(exc.extra)
            /\ (Len(msgs) = 1 /\ ~HasKey(msgs[1])) => exc = ValidationException(msgs)

C9_Witness ==
    \E c \in Calls :
        /\ pc[c] = "done" /\ raised[c] = Idle
        /\ messages[c] = <<[message |-> "invalid value"]>>
        /\ dependency_name_set = {"db"}
        /\ outcome[c][1].exc = ValidationException(messages[c])

(***************************************************************************)
(* SpecBuild: _build_error_message on arguments of its own.                *)
(***************************************************************************)
KeySeqs == { << >>, <<"limit">>, <<"db">>, <<"db", "host">>, <<"limit", "0">>, <<"n/a">> }

InitBuild ==
    /\ fields \in FieldMaps
    /\ dependency_name_set = { n \in FieldNames : IsDependencyKwarg(fields[n]) }
    /\ query_params \in SUBSET QueryNames
    /\ arg_keys \in KeySeqs
    /\ arg_exc_msg \in ExcMsgs
    /\ ret_message = None
    /\ InitCalls /\ NoCreate

BuildErrorMessage ==
    /\ ret_message = None
    /\ ret_message' = Some(_build_error_message(arg_keys, arg_exc_msg, fields, query_params))
    /\ UNCHANGED <<arg_keys, arg_exc_msg, classVars, query_params, callVars, createVars>>

NextBuild == BuildErrorMessage

SpecBuild == InitBuild /\ [][NextBuild]_vars

\* the dotted key of a path of one to three segments
DottedKey(keys) ==
    CASE Len(keys) = 1 -> keys[1]
      [] Len(keys) = 2 -> keys[1] \o "." \o keys[2]
      [] Len(keys) = 3 -> keys[1] \o "." \o keys[2] \o "." \o keys[3]

\* C3: for a non-empty path the message has key = the segments joined with ".",
\* and source "query" if the key is a query parameter; else, if the field of
\* that name has a ParameterKwarg, "cookie" if it is cookie-flagged, else
\* "header" if header-flagged, else "query"; else no source.  For an empty path
\* neither key nor source is set; source is never set without key.
C3_KeyAndSource ==
    ret_message # None =>
        LET m == ret_message[1]
        IN  /\ "source" \in DOMAIN m => "key" \in DOMAIN m
            /\ arg_keys = << >> => DOMAIN m = {"message"}
            /\ arg_keys # << >> =>
                  LET key == DottedKey(arg_keys)
                      param == key \in DOMAIN fields /\ fields[key].kind = "ParameterKwarg"
                  IN  /\ "key" \in DOMAIN m /\ m.key = key
                      /\ key \in query_params => "source" \in DOMAIN m /\ m.source = "query"
                      /\ (key \notin query_params /\ param) =>
                            /\ "source" \in DOMAIN m
                            /\ m.source = IF fields[key].attrs["cookie"] # None THEN "cookie"
                                          ELSE IF fields[key].attrs["header"] # None THEN "header"
                                          ELSE "query"
                      /\ (key \notin query_params /\ ~param) => "source" \notin DOMAIN m

C3_Witness ==
    /\ ret_message # None
    /\ arg_keys = <<"limit">>
    /\ "limit" \in query_params
    /\ fields["limit"] = ParameterKwarg(ParamAttrs(Some("sid"), Some("X-Id")))
    /\ ret_message[1].key = "limit"
    /\ ret_message[1].source = "query"

(***************************************************************************)
(* SignatureModel.create                                                   *)
(*                                                                         *)
(* typing objects are trees:                                               *)
(*   Type(name)            a class, None (NoneType) and Any among them     *)
(*   Annotated(t, meta)    Annotated[t, meta]                              *)
(*   UnionOf(args)         Union[args]: a union of one type is that type,  *)
(*                         and a union among the args is flattened         *)
(* Python values are records: PyNone, PyInt(v), and the marker NODEFAULT.  *)
(***************************************************************************)
Type(name) == [node |-> "type", name |-> name]
NoneType == Type("None")
AnyType == Type("Any")
Annotated(t, meta) == [node |-> "Annotated", origin |-> t, meta |-> meta]

IsUnionType(t) == t.node = "Union"
\* typing.get_args for the types of the model
get_args(t) == IF IsUnionType(t) THEN t.args ELSE << >>

RECURSIVE Flatten(_)
Flatten(args) ==
    IF args = << >> THEN << >>
    ELSE (IF IsUnionType(Head(args)) THEN Head(args).args ELSE <<Head(args)>>) \o Flatten(Tail(args))

UnionOf(args) ==
    LET flat == Flatten(args)
    IN  IF Len(flat) = 1 THEN flat[1] ELSE [node |-> "Union", args |-> flat]

Optional(t) == UnionOf(<<t, NoneType>>)

\* litestar.utils.make_non_optional_union: the union of the args that are not None
make_non_optional_union(annotation) ==
    UnionOf(SelectSeq(get_args(annotation), LAMBDA a : a # NoneType))

\* litestar.utils.typing.unwrap_union: the args of a union, unions among them unwrapped
unwrap_union(annotation) == Flatten(get_args(annotation))

PyNone == [py |-> "None"]
PyInt(v) == [py |-> "int", v |-> v]
NODEFAULT == [py |-> "NODEFAULT"]

\* a FieldDefinition (litestar.typing): is_optional and is_union follow from the annotation
FieldDefinition(name, annotation, kwarg_definition, has_default, default) ==
    [ name |-> name,
      annotation |-> annotation,
      kwarg_definition |-> kwarg_definition,
      has_default |-> has_default,
      default |-> default,
      is_union |-> IsUnionType(annotation),
      is_optional |-> IsUnionType(annotation) /\ \E i \in 1..Len(annotation.args) : annotation.args[i] = NoneType ]

MSGSPEC_CONSTRAINT_FIELDS ==
    {"gt", "ge", "lt", "le", "multiple_of", "pattern", "min_length", "max_length"}

\* the attributes of msgspec.Meta: hasattr(Meta, k)
MetaAttributes ==
    {"gt", "ge", "lt", "le", "multiple_of", "pattern", "min_length", "max_length", "tz",
     "title", "description", "examples", "extra_json_schema", "extra"}

\* simple_asdict(field_definition.kwarg_definition, exclude_empty=True)
simple_asdict(kd) == kd.attrs

\* dict.pop(k, None) leaves the other keys
Without(d, keys) == [k \in DOMAIN d \ keys |-> d[k]]
\* dict.pop(k, None): the value popped
Popped(d, k) == IF k \in DOMAIN d THEN d[k] ELSE None

\* lines 183-195: meta_kwargs, "extra" among its keys
MetaKwargs(kd) ==
    LET all == simple_asdict(kd)
        min_items == Popped(all, "min_items")
        max_items == Popped(all, "max_items")
        kwarg_definition == Without(all, {"min_items", "max_items"})
        renamed == { k \in {"min_length", "max_length"} :
                        \/ k = "min_length" /\ TruthyInt(min_items)
                        \/ k = "max_length" /\ TruthyInt(max_items) }
        native == { k \in DOMAIN kwarg_definition :
                        k \in MetaAttributes /\ kwarg_definition[k] # None }
        extra == [k \in DOMAIN kwarg_definition \ native |-> kwarg_definition[k]]
    IN  [ k \in {"extra"} \cup renamed \cup native |->
            IF k = "extra" THEN extra
            ELSE IF k \in native THEN kwarg_definition[k]
            ELSE IF k = "min_length" THEN min_items
            ELSE max_items ]

\* Meta(**meta_kwargs)
Meta(meta_kwargs) == [meta_kwargs |-> meta_kwargs]

\* lines 198-207
ConstrainedAnnotation(field_definition, annotation, meta_kwargs) ==
    LET meta == Meta(meta_kwargs)
    IN  IF field_definition.is_optional
        THEN Optional(Annotated(make_non_optional_union(annotation), meta))
        ELSE IF field_definition.is_union /\ (DOMAIN meta_kwargs \cap MSGSPEC_CONSTRAINT_FIELDS) # {}
        THEN UnionOf([i \in 1..Len(unwrap_union(annotation)) |->
                         Annotated(unwrap_union(annotation)[i], meta)])
        ELSE Annotated(annotation, meta)

\* lines 180-213
FieldAnnotation(field_definition, overrides) ==
    LET annotation == IF field_definition.name \in DOMAIN overrides
                      THEN overrides[field_definition.name]
                      ELSE field_definition.annotation
        kd == field_definition.kwarg_definition
    IN  IF IsKwargDefinition(kd)
        THEN ConstrainedAnnotation(field_definition, annotation, MetaKwargs(kd))
        ELSE IF IsDependencyKwarg(kd) /\ kd.skip_validation
        THEN AnyType
        ELSE annotation

\* a default that is kept only when it is truthy
FieldDefaultTruthy(field_definition) ==
    IF field_definition.has_default /\ field_definition.default \notin {PyNone, PyInt(0)}
    THEN field_definition.default
    ELSE NODEFAULT

\* line 215
FieldDefault(field_definition) ==
    IF field_definition.has_default THEN field_definition.default ELSE NODEFAULT

\* validate_signature_dependencies: the names given and those of the parameters
\* that carry a DependencyKwarg
validate_signature_dependencies(dns, parameters) ==
    dns \cup { parameters[i].name : i \in { j \in 1..Len(parameters) :
                                              IsDependencyKwarg(parameters[j].kwarg_definition) } }

\* lines 179-216: one iteration of the loop over the parameters
CreateField ==
    /\ model = None
    /\ Len(struct_fields) < Len(parsed_signature)
    /\ LET field_definition == parsed_signature[Len(struct_fields) + 1]
       IN  struct_fields' = Append(struct_fields,
               [ name |-> field_definition.name,
                 annotation |-> FieldAnnotation(field_definition, type_overrides),
                 default |-> FieldDefault(field_definition) ])
    /\ UNCHANGED <<parsed_signature, type_overrides, model, classVars, query_params,
                   callVars, buildVars>>

\* lines 218-229: defstruct
CreateDefstruct ==
    /\ model = None
    /\ Len(struct_fields) = Len(parsed_signature)
    /\ model' = Some([ struct_fields |-> struct_fields,
                       dependency_name_set |->
                           validate_signature_dependencies(dependency_name_set, parsed_signature),
                       fields |-> [ n \in { parsed_signature[i].name : i \in 1..Len(parsed_signature) } |->
                                      (CHOOSE fd \in Range(parsed_signature) : fd.name = n).kwarg_definition ] ])
    /\ UNCHANGED <<parsed_signature, type_overrides, struct_fields, classVars, query_params,
                   callVars, buildVars>>

(***************************************************************************)
(* SpecCreate: create on the parsed signature of a handler.                *)
(***************************************************************************)
PyEmpty == [py |-> "Empty"]

StrOrInt == UnionOf(<<Type("str"), Type("int")>>)
Annotations == { Type("int"), Type("list"), StrOrInt, Optional(Type("str")), Optional(StrOrInt) }

ConstraintSets ==
    { << >>,
      "max_length" :> Some(3),
      "min_items" :> Some(3),
      "max_items" :> Some(0),
      ("min_items" :> Some(3)) @@ ("min_length" :> Some(1)),
      "title" :> Some("limit of the page"),
      "header" :> Some("X-Id") }

Defaults == { <<FALSE, PyEmpty>>, <<TRUE, PyInt(0)>>, <<TRUE, PyNone>> }

ParameterPool ==
    { FieldDefinition("limit", a, ParameterKwarg(Attrs(AttrKeys, cs)), d[1], d[2]) :
          a \in Annotations, cs \in ConstraintSets, d \in { <<FALSE, PyEmpty>>, <<TRUE, PyInt(0)>> } }
    \cup { FieldDefinition("limit", Type("int"), NoKwarg, d[1], d[2]) : d \in Defaults }
    \cup { FieldDefinition("db", a, DependencyKwarg(skip), d[1], d[2]) :
               a \in { Type("int"), Optional(Type("str")) }, skip \in BOOLEAN, d \in Defaults }
    \cup { FieldDefinition("data", Type("dict"), kd, FALSE, PyEmpty) :
               kd \in { NoKwarg, BodyKwarg(Attrs(BodyAttrKeys, "title" :> Some("body"))) } }

Names(parameters) == { parameters[i].name : i \in 1..Len(parameters) }

RECURSIVE SignaturesOfLen(_)
\* parsed_signature.parameters is a dict: one parameter per name
SignaturesOfLen(n) ==
    IF n = 0 THEN { << >> }
    ELSE UNION { { Append(ps, fd) : fd \in { x \in ParameterPool : x.name \notin Names(ps) } } :
                     ps \in SignaturesOfLen(n - 1) }

Signatures == UNION { SignaturesOfLen(n) : n \in 0..MaxParams }

\* validate_signature_dependencies raises for an explicit dependency that is
\* neither provided nor optional nor defaulted: create goes no further
ValidDependencies(dns, parameters) ==
    \A i \in 1..Len(parameters) :
        (IsDependencyKwarg(parameters[i].kwarg_definition) /\ parameters[i].name \notin dns)
            => parameters[i].is_optional \/ parameters[i].has_default

InitCreate ==
    /\ parsed_signature \in Signatures
    /\ dependency_name_set \in SUBSET {"db"}
    /\ ValidDependencies(dependency_name_set, parsed_signature)
    /\ type_overrides \in { << >> } \cup
           (IF "data" \in Names(parsed_signature) THEN { "data" :> AnyType } ELSE {})
    /\ struct_fields = << >>
    /\ model = None
    /\ fields = << >>
    /\ query_params = {}
    /\ InitCalls /\ NoBuild

NextCreate == CreateField \/ CreateDefstruct

SpecCreate == InitCreate /\ [][NextCreate]_vars

RECURSIVE MetasOf(_)
\* the Meta objects attached anywhere in a type
MetasOf(t) ==
    IF t.node = "Annotated" THEN {t.meta} \cup MetasOf(t.origin)
    ELSE IF t.node = "Union" THEN UNION { MetasOf(t.args[i]) : i \in 1..Len(t.args) }
    ELSE {}

\* the members of a type: the args of a union, or the type itself
Members(t) == IF IsUnionType(t) THEN Range(t.args) ELSE {t}

\* C7: for a parameter with a KwargDefinition that has a native constraint and
\* an optional or union annotation, the type of the struct field attaches the
\* Meta to every member that is not None, each on its own, and None stays bare.
C7_ConstraintOnEveryMember ==
    model # None =>
        \A i \in 1..Len(parsed_signature) :
            LET fd == parsed_signature[i]
                built == model[1].struct_fields[i].annotation
            IN  ( /\ fd.name \notin DOMAIN type_overrides
                  /\ IsKwargDefinition(fd.kwarg_definition)
                  /\ (DOMAIN MetaKwargs(fd.kwarg_definition) \cap MSGSPEC_CONSTRAINT_FIELDS) # {}
                  /\ (fd.is_optional \/ fd.is_union) ) =>
                    /\ \A m \in Members(fd.annotation) \ {NoneType} :
                           \E a \in Members(built) : a.node = "Annotated" /\ a.origin = m
                    /\ fd.is_optional => NoneType \in Members(built)

\* C8: the struct has one field per parameter, in the order of the parameters;
\* the field of a skip-validation dependency is kept, typed Any; every field has
\* the parameter's default when it has one and NODEFAULT otherwise.
C8_OneFieldPerParameter ==
    model # None =>
        LET built == model[1].struct_fields
        IN  /\ Len(built) = Len(parsed_signature)
            /\ \A i \in 1..Len(parsed_signature) :
                  LET fd == parsed_signature[i]
                  IN  /\ built[i].name = fd.name
                      /\ (fd.kwarg_definition.kind = "DependencyKwarg"
                             /\ fd.kwarg_definition.skip_validation)
                            => built[i].annotation = AnyType
                      /\ fd.has_default => built[i].default = fd.default
                      /\ ~fd.has_default => built[i].default = NODEFAULT

C8_Witness ==
    /\ model # None
    /\ Len(parsed_signature) = 2
    /\ parsed_signature[1].name = "limit"
    /\ parsed_signature[1].has_default
    /\ parsed_signature[2] = FieldDefinition("db", Type("int"), DependencyKwarg(TRUE), TRUE, PyNone)
    /\ model[1].struct_fields[1].default = PyInt(0)
    /\ model[1].struct_fields[2] = [name |-> "db", annotation |-> AnyType, default |-> PyNone]

\* C10: min_items and max_items are renamed: the Meta has min_length (max_length)
\* equal to every declared min_items (max_items), and neither name is a key of
\* the Meta or of its extra; every other declared key is in exactly one of the
\* two, a key msgspec.Meta knows among the Meta's own, the others in extra, with
\* its value.
C10_ItemsRenamedToLength ==
    model # None =>
        \A i \in 1..Len(parsed_signature) :
            LET fd == parsed_signature[i]
                attrs == fd.kwarg_definition.attrs
                metas == MetasOf(model[1].struct_fields[i].annotation)
            IN  IsKwargDefinition(fd.kwarg_definition) =>
                  /\ metas # {}
                  /\ \A meta \in metas :
                        LET mk == meta.meta_kwargs
                        IN  /\ attrs["min_items"] # None =>
                                  "min_length" \in DOMAIN mk /\ mk["min_length"] = attrs["min_items"]
                            /\ attrs["max_items"] # None =>
                                  "max_length" \in DOMAIN mk /\ mk["max_length"] = attrs["max_items"]
                            /\ {"min_items", "max_items"} \cap (DOMAIN mk \cup DOMAIN mk["extra"]) = {}
                            /\ \A k \in DOMAIN attrs \ {"min_items", "max_items", "min_length", "max_length"} :
                                  attrs[k] # None =>
                                      IF k \in MetaAttributes
                                      THEN k \in DOMAIN mk /\ mk[k] = attrs[k] /\ k \notin DOMAIN mk["extra"]
                                      ELSE k \notin DOMAIN mk /\ k \in DOMAIN mk["extra"]
                                              /\ mk["extra"][k] = attrs[k]

====
